---- MODULE Spec2Model ----
(***************************************************************************)
(* Model of the four softmarket teaching modules: clientes.py,             *)
(* productos.py, facturacion.py and reportes.py.  Each module is a program *)
(* of its own (python clientes.py, ...), so a behaviour runs exactly one   *)
(* of them: Init chooses `modulo` and the actions of a module are enabled  *)
(* only in its own runs.                                                   *)
(*                                                                         *)
(* Conventions.                                                            *)
(*  - A Python str whose characters matter (names, emails) is a tuple of   *)
(*    one-character strings; a str of which only the length matters (sku,  *)
(*    product name) is a TLA+ string.                                      *)
(*  - A date is <<year, month, day>>; Python compares such tuples          *)
(*    lexicographically.                                                   *)
(*  - Money is an exact decimal amount counted in cents; quantities,       *)
(*    stock and percentages are integers.  round(x, 2) is Round below.     *)
(*    Float specials (nan, inf) and binary rounding noise are outside the  *)
(*    model.                                                               *)
(*  - A dict is the sequence of its values in insertion order (Python      *)
(*    dicts keep insertion order; assigning to an existing key keeps its   *)
(*    position).                                                           *)
(*  - Python lists are objects: `heap` maps an address to the contents of  *)
(*    the list stored there, and a reference is an address.  "L0" holds    *)
(*    the list a run starts with (VentaRepoMem._ventas, or the caller's    *)
(*    list of items), "L1" the list a listar() call creates.               *)
(***************************************************************************)
EXTENDS Integers, Sequences, FiniteSets, TLC

VARIABLES
    modulo,     \* which of the four programs this run executes
    clientes,   \* ClienteRepoMemoria._clientes (values in insertion order)
    data,       \* ProductoRepoMem._data (values in insertion order)
    heap,       \* list objects: address -> contents
    devuelta,   \* address of the list the caller got from the last listar()
    estrategia, \* FacturacionService._estrategia
    factura,    \* the Factura the caller got from the last calcular()
    ultimo      \* the last call: operation, arguments, outcome

vars == <<modulo, clientes, data, heap, devuelta, estrategia, factura, ultimo>>

\* Python's None where a record is expected, and the absent reference.
None == [none |-> TRUE]
SinLista == "ninguna"

Modulos == {"clientes", "productos", "facturacion", "reportes"}

(***************************************************************************)
(* Generic helpers                                                         *)
(***************************************************************************)
Range(s) == {s[i] : i \in 1..Len(s)}

Reverse(s) == [i \in 1..Len(s) |-> s[Len(s) + 1 - i]]

\* Python tuple comparison a < b on dates <<y, m, d>> and on <<m, d>> pairs.
TupleLt(a, b) ==
    \E i \in 1..Len(a) :
        /\ a[i] < b[i]
        /\ \A j \in 1..(i - 1) : a[j] = b[j]

(***************************************************************************)
(* clientes.py                                                             *)
(***************************************************************************)
\* Bounds of the customer scenario.
IdsCliente == {"1", "2"}
Ana == <<"A", "n", "a">>
Blanco == <<" ", " ">>
Nombres == {Ana, Blanco}
EmailA == <<"a", "@", "b", ".", "c">>
EmailZ == <<"z", "@", "b", ".", "c">>
EmailSinPunto == <<"a", "@", "b">>
EmailDosArrobas == <<"a", "@", "b", ".", "c", "@", "d">>
Emails == {EmailA, EmailZ, EmailSinPunto, EmailDosArrobas}
Nacimientos == {<<2000, 3, 10>>}
\* Values date.today() may return during a call.
Fechas == {<<2018, 2, 28>>, <<2018, 3, 10>>, <<2018, 4, 1>>}

Clientes ==
    [id : IdsCliente, nombre_completo : Nombres, email : Emails,
     fecha_nacimiento : Nacimientos]

\* Mutant of Edad: plain year subtraction, no month/day correction.
EdadSoloAnios(c, today) == today[1] - c.fecha_nacimiento[1]

\* Cliente.edad: year difference minus the bool (hoy.month, hoy.day) < (birth month, day)
Edad(c, today) ==
    today[1] - c.fecha_nacimiento[1]
      - (IF TupleLt(<<today[2], today[3]>>,
                    <<c.fecha_nacimiento[2], c.fecha_nacimiento[3]>>)
         THEN 1 ELSE 0)

\* str.strip(): drop leading and trailing whitespace.
RECURSIVE LStrip(_)
LStrip(s) == IF s # <<>> /\ Head(s) = " " THEN LStrip(Tail(s)) ELSE s

Strip(s) == Reverse(LStrip(Reverse(LStrip(s))))

\* re.match(r"[^@]+@[^@]+\.[^@]+", e): a PREFIX of e matches the pattern.
RegexMatch(e) ==
    \E i \in 2..Len(e) :
        /\ e[i] = "@"
        /\ \A n \in 1..(i - 1) : e[n] # "@"
        /\ \E j \in (i + 2)..(Len(e) - 1) :
              /\ e[j] = "."
              /\ \A n \in (i + 1)..(j + 1) : e[n] # "@"

\* ValidadorCliente.validar: the message of the first violated rule, or "ok".
Validar(c, today) ==
    IF Strip(c.nombre_completo) = <<>> THEN "nombre vacio"
    ELSE IF ~RegexMatch(c.email) THEN "email invalido"
    ELSE IF Edad(c, today) < 18 THEN "menor de edad"
    ELSE "ok"

\* Mutant of BuscarPorEmail: the scan stops after the first stored customer.
BuscarPorEmailSoloPrimero(cs, email) ==
    IF cs # <<>> /\ cs[1].email = email THEN cs[1] ELSE None

\* ClienteRepoMemoria.buscar_por_email: first stored customer with that email.
BuscarPorEmail(cs, email) ==
    IF \E i \in 1..Len(cs) : cs[i].email = email
    THEN cs[CHOOSE i \in 1..Len(cs) :
                /\ cs[i].email = email
                /\ \A j \in 1..(i - 1) : cs[j].email # email]
    ELSE None

\* ClienteRepoMemoria.agregar: self._clientes[cliente.id] = cliente
Agregar(cs, c) ==
    IF \E i \in 1..Len(cs) : cs[i].id = c.id
    THEN [i \in 1..Len(cs) |-> IF cs[i].id = c.id THEN c ELSE cs[i]]
    ELSE Append(cs, c)

\* ServicioClientes.registrar as a function of the repository and the clock:
\* the outcome and the repository contents afterwards.
RegistrarCliente(cs, c, today) ==
    LET msg == Validar(c, today) IN
    IF msg # "ok"
    THEN [resultado |-> "ClienteInvalido", mensaje |-> msg, clientes |-> cs]
    ELSE IF BuscarPorEmail(cs, c.email) # None
    THEN [resultado |-> "ClienteInvalido", mensaje |-> "email duplicado",
          clientes |-> cs]
    ELSE [resultado |-> "ok", mensaje |-> "", clientes |-> Agregar(cs, c)]

\* ClienteRepoMemoria.listar: list(self._clientes.values()), a new list
\* object (address "L1") holding the stored customers.
ListarClientes(cs, h) == [dir |-> "L1", heap |-> [h EXCEPT !["L1"] = cs]]

\* A write call is made while the caller holds no returned list (it drops
\* the list with Soltar first): this bounds the pairs (repository, list).
Registrar(c, today) ==
    /\ modulo = "clientes"
    /\ devuelta = SinLista
    /\ LET r == RegistrarCliente(clientes, c, today) IN
        /\ clientes' = r.clientes
        /\ ultimo' = [op |-> "registrar", cliente |-> c, hoy |-> today,
                      resultado |-> r.resultado, mensaje |-> r.mensaje]
    /\ UNCHANGED <<modulo, data, heap, devuelta, estrategia, factura>>

\* The caller looks a customer up: repo.buscar_por_email(email).
Buscar(email) ==
    /\ modulo = "clientes"
    /\ ultimo' = [op |-> "buscar", email |-> email,
                  retorno |-> BuscarPorEmail(clientes, email)]
    /\ UNCHANGED <<modulo, clientes, data, heap, devuelta, estrategia, factura>>

\* ServicioClientes.listar
ClientesListar ==
    /\ modulo = "clientes"
    /\ LET r == ListarClientes(clientes, heap) IN
        /\ heap' = r.heap
        /\ devuelta' = r.dir
    /\ ultimo' = [op |-> "listar"]
    /\ UNCHANGED <<modulo, clientes, data, estrategia, factura>>

(***************************************************************************)
(* productos.py                                                            *)
(***************************************************************************)
\* Bounds of the inventory scenario.
Skus == {"P1", "P-001", "P-002"}
NombresProducto == {"TV", "Mouse"}
Stocks == {-1, 0, 2}
Precios == {-100, 0, 1200}
Deltas == {-3, -1, 1}
MaxStock == 3

Producto(sku, nombre, stock, precio) ==
    [sku |-> sku, nombre |-> nombre, stock |-> stock, precio |-> precio]

\* Producto.valor_en_inventario: round(stock * precio, 2); exact in cents.
ValorEnInventario(p) == p.stock * p.precio

\* ProductoRepoMem.obtener: self._data.get(sku)
Obtener(d, sku) ==
    IF \E i \in 1..Len(d) : d[i].sku = sku
    THEN d[CHOOSE i \in 1..Len(d) : d[i].sku = sku]
    ELSE None

\* Mutant of Guardar: the assignment precedes the duplicate check.
GuardarEscribeAntes(d, p) ==
    IF \E i \in 1..Len(d) : d[i].sku = p.sku
    THEN [resultado |-> "ValueError", mensaje |-> "SKU duplicado",
          data |-> [i \in 1..Len(d) |-> IF d[i].sku = p.sku THEN p ELSE d[i]]]
    ELSE [resultado |-> "ok", mensaje |-> "", data |-> Append(d, p)]

\* ProductoRepoMem.guardar: raise on a stored sku, else insert.
Guardar(d, p) ==
    IF \E i \in 1..Len(d) : d[i].sku = p.sku
    THEN [resultado |-> "ValueError", mensaje |-> "SKU duplicado", data |-> d]
    ELSE [resultado |-> "ok", mensaje |-> "", data |-> Append(d, p)]

\* Mutant of Actualizar: the mapping is rebuilt with the updated record only.
ActualizarSoloEste(d, p) ==
    IF ~(\E i \in 1..Len(d) : d[i].sku = p.sku)
    THEN [resultado |-> "KeyError", mensaje |-> "SKU no existe", data |-> d]
    ELSE [resultado |-> "ok", mensaje |-> "", data |-> <<p>>]

\* ProductoRepoMem.actualizar: raise on an absent sku, else replace by key.
Actualizar(d, p) ==
    IF ~(\E i \in 1..Len(d) : d[i].sku = p.sku)
    THEN [resultado |-> "KeyError", mensaje |-> "SKU no existe", data |-> d]
    ELSE [resultado |-> "ok", mensaje |-> "",
          data |-> [i \in 1..Len(d) |-> IF d[i].sku = p.sku THEN p ELSE d[i]]]

\* ProductoRepoMem.listar: list(self._data.values()), a new list object.
ListarProductos(d, h) == [dir |-> "L1", heap |-> [h EXCEPT !["L1"] = d]]

\* Mutant of ValidarProducto: the price test is precio < 0.
ValidarProductoPrecioCero(sku, nombre, stock, precio) ==
    IF sku = "" \/ Len(sku) < 3 THEN "SKU invalido"
    ELSE IF nombre = "" \/ Len(nombre) < 3 THEN "Nombre invalido"
    ELSE IF stock < 0 THEN "Stock no puede ser negativo"
    ELSE IF precio < 0 THEN "Precio debe ser mayor a 0"
    ELSE "ok"

\* ProductoService._validar: the message of the first violated rule, or "ok".
ValidarProducto(sku, nombre, stock, precio) ==
    IF sku = "" \/ Len(sku) < 3 THEN "SKU invalido"
    ELSE IF nombre = "" \/ Len(nombre) < 3 THEN "Nombre invalido"
    ELSE IF stock < 0 THEN "Stock no puede ser negativo"
    ELSE IF precio <= 0 THEN "Precio debe ser mayor a 0"
    ELSE "ok"

\* ProductoService.registrar: outcome, returned record, repository afterwards.
RegistrarProducto(d, sku, nombre, stock, precio) ==
    LET msg == ValidarProducto(sku, nombre, stock, precio)
        p == Producto(sku, nombre, stock, precio)
        g == Guardar(d, p)
    IN  IF msg # "ok"
        THEN [resultado |-> "ProductoInvalido", mensaje |-> msg,
              retorno |-> None, data |-> d]
        ELSE [resultado |-> g.resultado, mensaje |-> g.mensaje,
              retorno |-> IF g.resultado = "ok" THEN p ELSE None,
              data |-> g.data]

\* ProductoService.ajustar_stock: outcome, returned record, repository afterwards.
AjustarStockProducto(d, sku, delta) ==
    LET p == Obtener(d, sku) IN
    IF p = None
    THEN [resultado |-> "ProductoInvalido", mensaje |-> "No existe SKU",
          retorno |-> None, data |-> d]
    ELSE LET nuevo == Producto(p.sku, p.nombre, p.stock + delta, p.precio)
             a == Actualizar(d, nuevo)
         IN  IF nuevo.stock < 0
             THEN [resultado |-> "ProductoInvalido",
                   mensaje |-> "El stock no puede ser negativo",
                   retorno |-> None, data |-> d]
             ELSE [resultado |-> a.resultado, mensaje |-> a.mensaje,
                   retorno |-> IF a.resultado = "ok" THEN nuevo ELSE None,
                   data |-> a.data]

ProductoRegistrar(sku, nombre, stock, precio) ==
    /\ modulo = "productos"
    /\ devuelta = SinLista
    /\ LET r == RegistrarProducto(data, sku, nombre, stock, precio) IN
        /\ data' = r.data
        /\ ultimo' = [op |-> "registrar",
                      arg |-> Producto(sku, nombre, stock, precio),
                      resultado |-> r.resultado, mensaje |-> r.mensaje,
                      retorno |-> r.retorno]
    /\ UNCHANGED <<modulo, clientes, heap, devuelta, estrategia, factura>>

\* Python ints are unbounded; the model stops adding stock at MaxStock.
AjustarStock(sku, delta) ==
    /\ modulo = "productos"
    /\ devuelta = SinLista
    /\ \A i \in 1..Len(data) : data[i].sku = sku => data[i].stock + delta <= MaxStock
    /\ LET r == AjustarStockProducto(data, sku, delta) IN
        /\ data' = r.data
        /\ ultimo' = [op |-> "ajustar_stock", sku |-> sku, delta |-> delta,
                      resultado |-> r.resultado, mensaje |-> r.mensaje,
                      retorno |-> r.retorno]
    /\ UNCHANGED <<modulo, clientes, heap, devuelta, estrategia, factura>>

\* ProductoService.listar
ProductosListar ==
    /\ modulo = "productos"
    /\ LET r == ListarProductos(data, heap) IN
        /\ heap' = r.heap
        /\ devuelta' = r.dir
    /\ ultimo' = [op |-> "listar"]
    /\ UNCHANGED <<modulo, clientes, data, estrategia, factura>>

(***************************************************************************)
(* facturacion.py                                                          *)
(***************************************************************************)
\* n/d (d > 0) rounded to the nearest integer, ties to the even one.
RoundHalfEven(n, d) ==
    LET q == n \div d
        r == n % d
    IN  IF 2 * r > d \/ (2 * r = d /\ q % 2 = 1) THEN q + 1 ELSE q

\* round(x, 2) of a float product x = n/d cents: the nearest cent; when the
\* decimal value is an exact tie the binary float lies on either side of it,
\* so both neighbours are possible results.
Redondeos(n, d) ==
    IF 2 * (n % d) = d THEN {n \div d, n \div d + 1} ELSE {RoundHalfEven(n, d)}

Max(a, b) == IF a >= b THEN a ELSE b

\* Bounds of the invoicing scenario.  precio_unitario is in thousandths, all
\* other amounts in cents; no item of the scenario has a tie in its subtotal.
MaxItems == 2
Teclado == [sku |-> "A100", nombre |-> "Teclado", cantidad |-> 2, precio_unitario |-> 25000]
Pad == [sku |-> "C300", nombre |-> "Pad", cantidad |-> 3, precio_unitario |-> 5757]
Devolucion == [sku |-> "A100", nombre |-> "Devolucion", cantidad |-> -1, precio_unitario |-> 25000]
Items == {Teclado, Pad, Devolucion}
Porcentajes == {-5, 10, 100, 150}
MontosFijos == {-100, 800, 100000}
Estrategias ==
    {[tipo |-> "DescuentoNulo"]}
      \cup {[tipo |-> "DescuentoPorcentaje", porcentaje |-> p] : p \in Porcentajes}
      \cup {[tipo |-> "DescuentoFijo", monto_fijo |-> m] : m \in MontosFijos}
Numeros == {"F-0001"}
FechaFactura == <<2018, 3, 10>>

\* Item.subtotal: round(cantidad * precio_unitario, 2), in cents.
ItemSubtotal(i) == RoundHalfEven(i.cantidad * i.precio_unitario, 10)

\* sum(...) over a list: Python's left fold.
RECURSIVE SumaSubtotales(_)
SumaSubtotales(items) ==
    IF items = <<>> THEN 0
    ELSE SumaSubtotales(SubSeq(items, 1, Len(items) - 1)) + ItemSubtotal(items[Len(items)])

\* DescuentoNulo.aplicar: round(monto, 2)
DescuentoNulo(monto) ==
    [resultado |-> "ok", mensaje |-> "", totales |-> {monto}]

\* Mutant of DescuentoPorcentaje: no range check.
DescuentoPorcentajeSinRango(porcentaje, monto) ==
    [resultado |-> "ok", mensaje |-> "",
     totales |-> Redondeos(monto * (100 - porcentaje), 100)]

\* DescuentoPorcentaje.aplicar
DescuentoPorcentaje(porcentaje, monto) ==
    IF porcentaje < 0 \/ porcentaje > 100
    THEN [resultado |-> "ValueError", mensaje |-> "Porcentaje de descuento invalido",
          totales |-> {}]
    ELSE [resultado |-> "ok", mensaje |-> "",
          totales |-> Redondeos(monto * (100 - porcentaje), 100)]

\* DescuentoFijo.aplicar
DescuentoFijo(monto_fijo, monto) ==
    IF monto_fijo < 0
    THEN [resultado |-> "ValueError", mensaje |-> "El descuento fijo no puede ser negativo",
          totales |-> {}]
    ELSE [resultado |-> "ok", mensaje |-> "", totales |-> {Max(0, monto - monto_fijo)}]

\* IDiscountStrategy.aplicar, dispatched on the strategy object.
Aplicar(e, monto) ==
    IF e.tipo = "DescuentoNulo" THEN DescuentoNulo(monto)
    ELSE IF e.tipo = "DescuentoPorcentaje" THEN DescuentoPorcentaje(e.porcentaje, monto)
    ELSE DescuentoFijo(e.monto_fijo, monto)

\* FacturacionService.calcular(numero, items), items being the list at
\* address dir: outcome and the possible invoices.  The Factura keeps the
\* reference `dir` it was given (items=items), not a copy of the list.
CalcularFactura(e, numero, dir, h, today) ==
    LET subtotal == SumaSubtotales(h[dir])
        a == Aplicar(e, subtotal)
    IN  IF h[dir] = <<>>
        THEN [resultado |-> "ValueError",
              mensaje |-> "La factura debe contener al menos un item", facturas |-> {}]
        ELSE [resultado |-> a.resultado, mensaje |-> a.mensaje,
              facturas |-> {[numero |-> numero, fecha |-> today, items |-> dir,
                             subtotal |-> subtotal, total_con_descuento |-> t,
                             estrategia_descuento |-> e] : t \in a.totales}]

Calcular(numero, today) ==
    /\ modulo = "facturacion"
    /\ LET r == CalcularFactura(estrategia, numero, "L0", heap, today) IN
        /\ ultimo' = [op |-> "calcular", resultado |-> r.resultado, mensaje |-> r.mensaje]
        /\ IF r.resultado = "ok"
           THEN \E f \in r.facturas : factura' = f
           ELSE factura' = factura
    /\ UNCHANGED <<modulo, clientes, data, heap, devuelta, estrategia>>

\* The caller's own list of items (address "L0"): items.append(i)
ItemsAppend(i) ==
    /\ modulo = "facturacion"
    /\ Len(heap["L0"]) < MaxItems
    /\ heap' = [heap EXCEPT !["L0"] = Append(@, i)]
    /\ ultimo' = [op |-> "items.append"]
    /\ UNCHANGED <<modulo, clientes, data, devuelta, estrategia, factura>>

\* items.pop()
ItemsPop ==
    /\ modulo = "facturacion"
    /\ heap["L0"] # <<>>
    /\ heap' = [heap EXCEPT !["L0"] = SubSeq(@, 1, Len(@) - 1)]
    /\ ultimo' = [op |-> "items.pop"]
    /\ UNCHANGED <<modulo, clientes, data, devuelta, estrategia, factura>>

\* items[k] = i
ItemsReemplazar(k, i) ==
    /\ modulo = "facturacion"
    /\ k \in 1..Len(heap["L0"])
    /\ heap["L0"][k] # i
    /\ heap' = [heap EXCEPT !["L0"][k] = i]
    /\ ultimo' = [op |-> "items[k] = i"]
    /\ UNCHANGED <<modulo, clientes, data, devuelta, estrategia, factura>>

\* Factura is a plain (not frozen) dataclass: factura.subtotal = v and
\* factura.total_con_descuento = v are ordinary assignments.
MontosAsignados == {0}

AsignarCampo(campo, v) ==
    /\ modulo = "facturacion"
    /\ factura # None
    /\ \/ campo = "subtotal" /\ factura.subtotal # v
          /\ factura' = [factura EXCEPT !.subtotal = v]
       \/ campo = "total_con_descuento" /\ factura.total_con_descuento # v
          /\ factura' = [factura EXCEPT !.total_con_descuento = v]
    /\ ultimo' = [op |-> "factura.campo = v"]
    /\ UNCHANGED <<modulo, clientes, data, heap, devuelta, estrategia>>

(***************************************************************************)
(* reportes.py                                                             *)
(***************************************************************************)
\* Bounds of the sales scenario (amounts in cents).
MaxVentas == 3
FechaVenta == <<2025, 10, 14>>
Venta(id, cliente, producto, cantidad, precio) ==
    [id_venta |-> id, cliente |-> cliente, producto |-> producto,
     cantidad |-> cantidad, precio_unitario |-> precio, fecha |-> FechaVenta]
Ventas ==
    {Venta("V-001", "Carlos", "Teclado", 2, 2550),
     Venta("V-002", "Santiago", "Mouse", 3, 1200),
     Venta("V-001", "Carlos", "Mouse", 1, 1200)}
NombresCliente == {"Carlos", "Santiago", "carlos"}
NombresVendidos == {"Teclado", "Mouse", "Monitor"}

\* Venta.total: cantidad * precio_unitario, not rounded.
VentaTotal(v) == v.cantidad * v.precio_unitario

\* Mutant of RegistrarVenta: keyed by id_venta like the other repositories.
RegistrarVentaPorId(h, v) ==
    IF \E i \in 1..Len(h["L0"]) : h["L0"][i].id_venta = v.id_venta
    THEN [h EXCEPT !["L0"] = [i \in 1..Len(@) |->
                              IF @[i].id_venta = v.id_venta THEN v ELSE @[i]]]
    ELSE [h EXCEPT !["L0"] = Append(@, v)]

\* VentaRepoMem.registrar: self._ventas.append(venta); _ventas is the list
\* at address "L0".
RegistrarVenta(h, v) == [h EXCEPT !["L0"] = Append(@, v)]

\* Mutant of ListarVentas: return self._ventas, the internal list itself.
ListarVentasAlias(h) == [dir |-> "L0", heap |-> h]

\* VentaRepoMem.listar: list(self._ventas), a new list object (address "L1").
ListarVentas(h) == [dir |-> "L1", heap |-> [h EXCEPT !["L1"] = h["L0"]]]

\* sum(v.total for v in lista): Python's left fold.
RECURSIVE SumaTotales(_)
SumaTotales(lista) ==
    IF lista = <<>> THEN 0
    ELSE SumaTotales(SubSeq(lista, 1, Len(lista) - 1)) + VentaTotal(lista[Len(lista)])

\* The list a report iterates over: the contents of self._repo.listar().
Listado(h) == LET r == ListarVentas(h) IN r.heap[r.dir]

\* ReporteVentasService.total_general
TotalGeneral(h) == SumaTotales(Listado(h))

\* ReporteVentasService.total_por_cliente: ... if v.cliente == cliente
TotalPorCliente(h, cliente) ==
    LET Suya(v) == v.cliente = cliente IN SumaTotales(SelectSeq(Listado(h), Suya))

\* ReporteVentasService.total_por_producto: ... if v.producto == producto
TotalPorProducto(h, producto) ==
    LET DelProducto(v) == v.producto = producto
    IN  SumaTotales(SelectSeq(Listado(h), DelProducto))

\* Python lists are unbounded; the model stops at MaxVentas sales.
VentaRegistrar(v) ==
    /\ modulo = "reportes"
    /\ devuelta = SinLista
    /\ Len(heap["L0"]) < MaxVentas
    /\ heap' = RegistrarVenta(heap, v)
    /\ ultimo' = [op |-> "registrar", venta |-> v]
    /\ UNCHANGED <<modulo, clientes, data, devuelta, estrategia, factura>>

VentasListar ==
    /\ modulo = "reportes"
    /\ LET r == ListarVentas(heap) IN
        /\ heap' = r.heap
        /\ devuelta' = r.dir
    /\ ultimo' = [op |-> "listar"]
    /\ UNCHANGED <<modulo, clientes, data, estrategia, factura>>

ReporteTotalGeneral ==
    /\ modulo = "reportes"
    /\ ultimo' = [op |-> "total_general", retorno |-> TotalGeneral(heap)]
    /\ UNCHANGED <<modulo, clientes, data, heap, devuelta, estrategia, factura>>

ReporteTotalPorCliente(cliente) ==
    /\ modulo = "reportes"
    /\ ultimo' = [op |-> "total_por_cliente", nombre |-> cliente,
                  retorno |-> TotalPorCliente(heap, cliente)]
    /\ UNCHANGED <<modulo, clientes, data, heap, devuelta, estrategia, factura>>

ReporteTotalPorProducto(producto) ==
    /\ modulo = "reportes"
    /\ ultimo' = [op |-> "total_por_producto", nombre |-> producto,
                  retorno |-> TotalPorProducto(heap, producto)]
    /\ UNCHANGED <<modulo, clientes, data, heap, devuelta, estrategia, factura>>

(***************************************************************************)
(* The caller owns the list listar() returned and may change it.           *)
(***************************************************************************)
MaxLista == 3

\* A record the caller puts into a list it was given.
Intruso == [sku |-> "X", id |-> "X", id_venta |-> "X"]

\* lista.append(Intruso), lista.pop(), lista.reverse() on the returned list.
MutarDevuelta ==
    /\ modulo \in {"clientes", "productos", "reportes"}
    /\ devuelta # SinLista
    /\ \/ /\ Len(heap[devuelta]) < MaxLista
          /\ heap' = [heap EXCEPT ![devuelta] = Append(@, Intruso)]
          /\ ultimo' = [op |-> "mutar", como |-> "append"]
       \/ /\ heap[devuelta] # <<>>
          /\ heap' = [heap EXCEPT ![devuelta] = SubSeq(@, 1, Len(@) - 1)]
          /\ ultimo' = [op |-> "mutar", como |-> "pop"]
       \/ /\ Len(heap[devuelta]) > 1
          /\ heap' = [heap EXCEPT ![devuelta] = Reverse(@)]
          /\ ultimo' = [op |-> "mutar", como |-> "reverse"]
    /\ UNCHANGED <<modulo, clientes, data, devuelta, estrategia, factura>>

\* The caller drops the list it was given; the copy at address "L1" is garbage.
Soltar ==
    /\ devuelta # SinLista
    /\ devuelta' = SinLista
    /\ heap' = [heap EXCEPT !["L1"] = <<>>]
    /\ ultimo' = [op |-> "soltar"]
    /\ UNCHANGED <<modulo, clientes, data, estrategia, factura>>

\* The state after construction: empty repositories, and in an invoicing run
\* the strategy the FacturacionService was constructed with.
Init ==
    /\ modulo \in Modulos
    /\ clientes = <<>>
    /\ data = <<>>
    /\ heap = [a \in {"L0", "L1"} |-> <<>>]
    /\ devuelta = SinLista
    /\ estrategia \in (IF modulo = "facturacion" THEN Estrategias ELSE {None})
    /\ factura = None
    /\ ultimo = [op |-> "inicio"]

Next ==
    \/ \E c \in Clientes, today \in Fechas : Registrar(c, today)
    \/ \E e \in Emails : Buscar(e)
    \/ ClientesListar
    \/ \E sku \in Skus, nombre \in NombresProducto, stock \in Stocks, precio \in Precios :
          ProductoRegistrar(sku, nombre, stock, precio)
    \/ \E sku \in Skus, delta \in Deltas : AjustarStock(sku, delta)
    \/ ProductosListar
    \/ \E numero \in Numeros : Calcular(numero, FechaFactura)
    \/ \E i \in Items : ItemsAppend(i)
    \/ ItemsPop
    \/ \E k \in 1..MaxItems, i \in Items : ItemsReemplazar(k, i)
    \/ \E campo \in {"subtotal", "total_con_descuento"}, v \in MontosAsignados :
          AsignarCampo(campo, v)
    \/ \E v \in Ventas : VentaRegistrar(v)
    \/ VentasListar
    \/ ReporteTotalGeneral
    \/ \E c \in NombresCliente : ReporteTotalPorCliente(c)
    \/ \E p \in NombresVendidos : ReporteTotalPorProducto(p)
    \/ MutarDevuelta
    \/ Soltar

Spec == Init /\ [][Next]_vars

(***************************************************************************)
(* Properties                                                              *)
(***************************************************************************)
EnClientes == modulo = "clientes"
EnProductos == modulo = "productos"
EnFacturacion == modulo = "facturacion"
EnReportes == modulo = "reportes"

EmailsDistintos(cs) ==
    \A i, j \in 1..Len(cs) : cs[i].email = cs[j].email => i = j

EmailsGuardados(cs) == {cs[i].email : i \in 1..Len(cs)}

\* C1: no two stored customers share an email after any step, and a registrar
\* call whose email is already stored fails (ClienteInvalido, with the
\* duplicate message when the customer is otherwise valid) and adds nothing.
C1_EmailUnico ==
    [][EnClientes =>
        /\ EmailsDistintos(clientes')
        /\ (ultimo'.op = "registrar"
              /\ ultimo'.cliente.email \in EmailsGuardados(clientes))
           => /\ ultimo'.resultado = "ClienteInvalido"
              /\ clientes' = clientes
              /\ (Validar(ultimo'.cliente, ultimo'.hoy) = "ok"
                    => ultimo'.mensaje = "email duplicado")]_vars

C1_Witness ==
    /\ EnClientes
    /\ Len(clientes) = 2
    /\ ultimo.op = "registrar"
    /\ ultimo.mensaje = "email duplicado"

\* C2: a registered customer is never removed or changed: every stored
\* customer is still stored, and still the one found by its email, after any
\* step, and the number of stored customers never decreases.
C2_ClientePermanece ==
    [][EnClientes =>
        /\ Len(clientes') >= Len(clientes)
        /\ \A i \in 1..Len(clientes) :
              /\ clientes[i] \in Range(clientes')
              /\ BuscarPorEmail(clientes', clientes[i].email) = clientes[i]]_vars

C4_SinEscrituraParcial ==
    [][(/\ (EnClientes \/ EnProductos)
        /\ ultimo'.op \in {"registrar", "ajustar_stock"}
        /\ ultimo'.resultado # "ok")
       => (clientes' = clientes /\ data' = data)]_vars

C4_Witness ==
    /\ EnProductos
    /\ ultimo.op = "registrar"
    /\ ultimo.resultado = "ValueError"
    /\ Len(data) = 2

SkusGuardados(d) == {d[i].sku : i \in 1..Len(d)}

\* C5: ajustar_stock(sku, delta) fails (No existe SKU) when sku is not stored,
\* fails (stock negativo) when stored stock + delta < 0, and otherwise returns
\* and stores the old record with stock + delta under the same key, every
\* other product and the order of the keys staying as they were.
C5_AjustarStock ==
    [][(EnProductos /\ ultimo'.op = "ajustar_stock") =>
        LET sku == ultimo'.sku
            delta == ultimo'.delta
            viejo == CHOOSE p \in Range(data) : p.sku = sku
        IN  IF sku \notin SkusGuardados(data)
            THEN /\ ultimo'.resultado = "ProductoInvalido"
                 /\ ultimo'.mensaje = "No existe SKU"
                 /\ data' = data
            ELSE IF viejo.stock + delta < 0
            THEN /\ ultimo'.resultado = "ProductoInvalido"
                 /\ ultimo'.mensaje = "El stock no puede ser negativo"
                 /\ data' = data
            ELSE /\ ultimo'.resultado = "ok"
                 /\ ultimo'.retorno = [sku |-> sku, nombre |-> viejo.nombre,
                                       stock |-> viejo.stock + delta,
                                       precio |-> viejo.precio]
                 /\ Len(data') = Len(data)
                 /\ \A i \in 1..Len(data) :
                       data'[i] = IF data[i].sku = sku THEN ultimo'.retorno
                                  ELSE data[i]]_vars

C5_Witness ==
    /\ EnProductos
    /\ ultimo.op = "ajustar_stock"
    /\ ultimo.resultado = "ok"
    /\ Len(data) = 2
    /\ data[1].sku = ultimo.sku

\* The sum of the subtotals of the items of a list, item by item.
SumaPorIndices(items) ==
    LET S[n \in 0..Len(items)] ==
            IF n = 0 THEN 0
            ELSE S[n - 1] + RoundHalfEven(items[n].cantidad * items[n].precio_unitario, 10)
    IN  S[Len(items)]

\* C6: the invoice calcular returned stays non-empty and its subtotal stays
\* the sum of the subtotals of its items, whatever the caller does next.
C6_FacturaInmutable ==
    (EnFacturacion /\ factura # None) =>
        /\ heap[factura.items] # <<>>
        /\ factura.subtotal = SumaPorIndices(heap[factura.items])

\* The age rule of the claim: year difference, minus one when today's
\* (month, day) is before the birth (month, day).
EdadSegunRegla(nacimiento, today) ==
    IF today[2] < nacimiento[2] \/ (today[2] = nacimiento[2] /\ today[3] < nacimiento[3])
    THEN today[1] - nacimiento[1] - 1
    ELSE today[1] - nacimiento[1]

NombreNoVacio(nombre) == \E i \in 1..Len(nombre) : nombre[i] # " "

\* local@domain.tld: one "@", a non-empty local part, and a "." in the rest
\* with at least one character on each side.
TieneForma(e) ==
    \E i, j \in 1..Len(e) :
        /\ e[i] = "@"
        /\ \A n \in 1..Len(e) : e[n] = "@" => n = i
        /\ e[j] = "."
        /\ 1 < i /\ i + 1 < j /\ j < Len(e)

\* C7 as stated: registrar fails when the age is below 18, and succeeds, the
\* customer then being found by its email, whenever the age is at least 18,
\* the name is not blank and the email has the local@domain.tld shape.
C7_ReglaDeEdad_Original ==
    [][(EnClientes /\ ultimo'.op = "registrar") =>
        LET c == ultimo'.cliente
            edad == EdadSegunRegla(c.fecha_nacimiento, ultimo'.hoy)
        IN  /\ edad < 18 => ultimo'.resultado = "ClienteInvalido"
            /\ (edad >= 18 /\ NombreNoVacio(c.nombre_completo) /\ TieneForma(c.email))
               => /\ ultimo'.resultado = "ok"
                  /\ BuscarPorEmail(clientes', c.email) = c]_vars

\* C7 (amended): registrar fails when the age is below 18, and succeeds, the
\* customer then being found by its email, whenever the age is at least 18,
\* the name is not blank, the email has the local@domain.tld shape and no
\* stored customer already has that email.
C7_ReglaDeEdad ==
    [][(EnClientes /\ ultimo'.op = "registrar") =>
        LET c == ultimo'.cliente
            edad == EdadSegunRegla(c.fecha_nacimiento, ultimo'.hoy)
        IN  /\ edad < 18 => ultimo'.resultado = "ClienteInvalido"
            /\ (/\ edad >= 18
                /\ NombreNoVacio(c.nombre_completo)
                /\ TieneForma(c.email)
                /\ c.email \notin EmailsGuardados(clientes))
               => /\ ultimo'.resultado = "ok"
                  /\ BuscarPorEmail(clientes', c.email) = c]_vars

C7_Witness ==
    /\ EnClientes
    /\ ultimo.op = "registrar"
    /\ ultimo.resultado = "ok"
    /\ EdadSegunRegla(ultimo.cliente.fecha_nacimiento, ultimo.hoy) = 18
    /\ BuscarPorEmail(clientes, ultimo.cliente.email) = ultimo.cliente

EstrategiaFueraDeRango(e) ==
    \/ e.tipo = "DescuentoPorcentaje" /\ (e.porcentaje < 0 \/ e.porcentaje > 100)
    \/ e.tipo = "DescuentoFijo" /\ e.monto_fijo < 0

\* What the claim says of an invoice calcular has just returned.
TotalEnRango(f) == 0 <= f.total_con_descuento /\ f.total_con_descuento <= f.subtotal

TotalSegunEstrategia(f) ==
    /\ f.estrategia_descuento.tipo = "DescuentoFijo"
         => f.total_con_descuento =
              (IF f.subtotal - f.estrategia_descuento.monto_fijo > 0
               THEN f.subtotal - f.estrategia_descuento.monto_fijo ELSE 0)
    /\ f.estrategia_descuento.tipo = "DescuentoNulo"
         => f.total_con_descuento = f.subtotal

\* C8 as stated: with a percentage outside [0,100] or a negative fixed amount
\* calcular returns no invoice; otherwise every returned invoice has
\* 0 <= total_con_descuento <= subtotal, the fixed result being
\* max(0, subtotal - fixed) and the no-op result the subtotal.
C8_Descuentos_Original ==
    [][(EnFacturacion /\ ultimo'.op = "calcular") =>
        /\ EstrategiaFueraDeRango(estrategia)
             => (ultimo'.resultado = "ValueError" /\ factura' = factura)
        /\ ultimo'.resultado = "ok"
             => (TotalEnRango(factura') /\ TotalSegunEstrategia(factura'))]_vars

\* C8 (amended): with a percentage outside [0,100] or a negative fixed amount
\* calcular returns no invoice; otherwise every returned invoice whose
\* subtotal is not negative has 0 <= total_con_descuento <= subtotal, and for
\* every returned invoice the fixed result is max(0, subtotal - fixed) and
\* the no-op result is the subtotal.
C8_Descuentos ==
    [][(EnFacturacion /\ ultimo'.op = "calcular") =>
        /\ EstrategiaFueraDeRango(estrategia)
             => (ultimo'.resultado = "ValueError" /\ factura' = factura)
        /\ ultimo'.resultado = "ok"
             => /\ factura'.subtotal >= 0 => TotalEnRango(factura')
                /\ TotalSegunEstrategia(factura')]_vars

C8_Witness ==
    /\ EnFacturacion
    /\ ultimo.op = "calcular"
    /\ ultimo.resultado = "ok"
    /\ estrategia.tipo = "DescuentoPorcentaje"
    /\ factura.subtotal > 0
    /\ factura.total_con_descuento < factura.subtotal
    /\ factura.total_con_descuento > 0

\* The internal collection of the repository of the running module.
Contenido ==
    IF EnClientes THEN clientes ELSE IF EnProductos THEN data ELSE heap["L0"]

\* C9: in the customer, product and sales repositories listar returns the
\* stored records and changes nothing, so two calls with no write in between
\* return equal sequences; and appending to, removing from or reordering a
\* returned list leaves the repository's collection as it was.
C9_ListarEsCopia ==
    [][(EnClientes \/ EnProductos \/ EnReportes) =>
        /\ ultimo'.op = "listar"
             => (heap'[devuelta'] = Contenido /\ Contenido' = Contenido)
        /\ ultimo'.op = "mutar"
             => Contenido' = Contenido]_vars

C9_Witness ==
    /\ EnReportes
    /\ ultimo.op = "mutar"
    /\ devuelta # SinLista
    /\ heap["L0"] # <<>>
    /\ heap[devuelta] # heap["L0"]

\* The sum of quantity x unit price over the sales of a list that satisfy a
\* test, sale by sale.
SumaVentas(lista, Cumple(_)) ==
    LET S[n \in 0..Len(lista)] ==
            IF n = 0 THEN 0
            ELSE S[n - 1] + (IF Cumple(lista[n])
                             THEN lista[n].cantidad * lista[n].precio_unitario
                             ELSE 0)
    IN  S[Len(lista)]

RECURSIVE SumaPorClientes(_, _)
SumaPorClientes(h, nombres) ==
    IF nombres = {} THEN 0
    ELSE LET c == CHOOSE x \in nombres : TRUE
         IN  TotalPorCliente(h, c) + SumaPorClientes(h, nombres \ {c})

\* C10: the sales log only grows at its end, by exactly the sale of each
\* registrar call; listar returns all of it in order; total_general is the
\* sum of quantity x unit price over all sales, total_por_cliente and
\* total_por_producto sum the sales whose name equals the argument, and the
\* totals of the distinct customers add up to total_general.
C10_VentasYReportes ==
    [][EnReportes =>
        LET Todas(v) == TRUE
            DeCliente(v) == v.cliente = ultimo'.nombre
            DeProducto(v) == v.producto = ultimo'.nombre
        IN  /\ IF ultimo'.op = "registrar"
               THEN heap'["L0"] = Append(heap["L0"], ultimo'.venta)
               ELSE heap'["L0"] = heap["L0"]
            /\ ultimo'.op = "listar" => heap'[devuelta'] = heap["L0"]
            /\ ultimo'.op = "total_general"
                 => ultimo'.retorno = SumaVentas(heap["L0"], Todas)
            /\ ultimo'.op = "total_por_cliente"
                 => ultimo'.retorno = SumaVentas(heap["L0"], DeCliente)
            /\ ultimo'.op = "total_por_producto"
                 => ultimo'.retorno = SumaVentas(heap["L0"], DeProducto)
            /\ SumaPorClientes(heap', {heap'["L0"][i].cliente : i \in 1..Len(heap'["L0"])})
                 = TotalGeneral(heap')]_vars

C10_Witness ==
    /\ EnReportes
    /\ Len(heap["L0"]) = 3
    /\ heap["L0"][1].id_venta = heap["L0"][3].id_venta
    /\ heap["L0"][1] # heap["L0"][3]
    /\ ultimo.op = "total_por_cliente"
    /\ ultimo.nombre = "Carlos"
    /\ ultimo.retorno > 0
    /\ ultimo.retorno < TotalGeneral(heap)
====
